---- MODULE Spec2Model ----
(***************************************************************************)
(* Model of the Azure Blob storage plugin for Snakemake                    *)
(* (snakemake_storage_plugin_azure, with the older generation              *)
(* snakemake_storage_plugin_az where the two differ).                      *)
(*                                                                         *)
(* Strings are sequences of one-character strings, so that parsing,        *)
(* splitting and pattern matching are computed character by character as   *)
(* the Python code computes them.                                          *)
(***************************************************************************)
EXTENDS Integers, Sequences, FiniteSets, TLC

VARIABLES
    query,      \* the query string handed to the parsing / validation functions
    parsed,     \* what the three parse_query_* functions returned for query
    validation, \* what is_valid_query returned for query
    endpoint,   \* the endpoint_url handed to the endpoint functions
    epout,      \* what the endpoint functions returned for endpoint
    settings,   \* the StorageProviderSettings the provider was built with
    obj,        \* the StorageObject under study and its attributes
    localfile,  \* the content of the file at obj.local_path(), or NoFile
    containers, \* the containers of the storage account
    blobs,      \* the content stored under each container and key, or Absent
    last,       \* the last call: what it returned or raised, what the backend answered
    modified,   \* the last_modified time of each blob (followed in SpecDir only)
    cache,      \* the host's IOCache that inventory() is handed
    threads     \* the invocations that run concurrently (SpecConcurrent only)

pure == <<query, parsed, validation, endpoint, epout>>
aside == <<modified, cache, threads>>
storage == <<settings, obj, localfile, containers, blobs, last, aside>>
vars == <<query, parsed, validation, endpoint, epout,
          settings, obj, localfile, containers, blobs, last,
          modified, cache, threads>>

Unset == [raised |-> "unset"]
Returned(v) == [raised |-> "none", value |-> v]
Raised(e) == [raised |-> e]

NoFile == "nofile"
Absent == "absent"
NoSettings == [generation |-> "", endpoint_url |-> <<>>, storage_account_name |-> <<>>]
NoObject == [built |-> FALSE, query |-> <<>>, valid |-> FALSE,
             account_name |-> Unset, container_name |-> Unset, blob_path |-> Unset]
NoCall == [op |-> "", query |-> <<>>, raised |-> "none", value |-> "None",
           answers |-> <<>>, before |-> Absent, again |-> FALSE]

\* an IOCache with nothing recorded: each dictionary is a set of <<key, value>>
NoCache == [exists_in_storage |-> {}, exists_remote |-> {}, mtime |-> {}, size |-> {}]

\* no modification times followed, an empty cache, nothing running concurrently
AsideIdle ==
    /\ modified = <<>>
    /\ cache = NoCache
    /\ threads = <<>>

\* no provider, no storage object, an empty storage account
StorageIdle ==
    /\ settings = NoSettings
    /\ obj = NoObject
    /\ localfile = NoFile
    /\ containers = {}
    /\ blobs = <<>>
    /\ last = NoCall
    /\ AsideIdle

(***************************************************************************)
(* Characters and Python str primitives                                    *)
(***************************************************************************)
LowerSeq == <<"a","b","c","d","e","f","g","h","i","j","k","l","m",
              "n","o","p","q","r","s","t","u","v","w","x","y","z">>
UpperSeq == <<"A","B","C","D","E","F","G","H","I","J","K","L","M",
              "N","O","P","Q","R","S","T","U","V","W","X","Y","Z">>
LowerChars == {LowerSeq[i] : i \in 1..26}
UpperChars == {UpperSeq[i] : i \in 1..26}
DigitChars == {"0","1","2","3","4","5","6","7","8","9"}
AlphaChars == LowerChars \cup UpperChars
AlnumChars == AlphaChars \cup DigitChars

\* str.lower() on one character
LowerChar(c) ==
    IF c \in UpperChars THEN LowerSeq[CHOOSE i \in 1..26 : UpperSeq[i] = c] ELSE c

\* str.lower()
Lower(s) == [i \in 1..Len(s) |-> LowerChar(s[i])]

SetMin(S) == CHOOSE x \in S : \A y \in S : x <= y
SetMax(S) == CHOOSE x \in S : \A y \in S : y <= x

\* str.find(c, start) with 1-based positions; 0 when c does not occur
Find(s, c, start) ==
    LET I == {i \in start..Len(s) : s[i] = c}
    IN  IF I = {} THEN 0 ELSE SetMin(I)

\* str.rfind(c); 0 when c does not occur
RFind(s, c) ==
    LET I == {i \in 1..Len(s) : s[i] = c}
    IN  IF I = {} THEN 0 ELSE SetMax(I)

Contains(s, c) == \E i \in 1..Len(s) : s[i] = c

\* s[i:] of Python for a 1-based first position i
From(s, i) == SubSeq(s, i, Len(s))

\* str.startswith
StartsWith(s, p) == Len(p) <= Len(s) /\ SubSeq(s, 1, Len(p)) = p

\* str.lstrip(c)
LStrip(s, c) ==
    LET I == {i \in 1..Len(s) : s[i] # c}
    IN  IF I = {} THEN <<>> ELSE From(s, SetMin(I))

\* str.split(c, maxsplit): the list of pieces, cut at the first maxsplit
\* occurrences of c
Split(s, c, maxsplit) ==
    LET P      == {i \in 1..Len(s) : s[i] = c}
        n      == IF Cardinality(P) < maxsplit THEN Cardinality(P) ELSE maxsplit
        cut(k) == IF k = 0 THEN 0
                  ELSE CHOOSE i \in P : Cardinality({j \in P : j < i}) = k - 1
    IN  [k \in 1..(n + 1) |->
            SubSeq(s, cut(k - 1) + 1, IF k = n + 1 THEN Len(s) ELSE cut(k) - 1)]

\* str.split(c) without a limit
SplitAll(s, c) == Split(s, c, Len(s))

\* str.isalnum(): non-empty and every character alphanumeric
IsAlnum(s) == Len(s) > 0 /\ \A i \in 1..Len(s) : s[i] \in AlnumChars

(***************************************************************************)
(* urllib.parse.urlparse, as the plugin calls it                           *)
(***************************************************************************)
SchemeChars == AlnumChars \cup {"+", "-", "."}
\* uses_params: the schemes whose path may carry ";params"
UsesParams ==
    {<<>>,
     <<"f","t","p">>,
     <<"h","d","l">>,
     <<"p","r","o","s","p","e","r","o">>,
     <<"h","t","t","p">>,
     <<"i","m","a","p">>,
     <<"h","t","t","p","s">>,
     <<"s","h","t","t","p">>,
     <<"r","t","s","p">>,
     <<"r","t","s","p","s">>,
     <<"r","t","s","p","u">>,
     <<"s","i","p">>,
     <<"s","i","p","s">>,
     <<"m","m","s">>,
     <<"s","f","t","p">>,
     <<"t","e","l">>}

\* The leading characters urlsplit strips: the space and the C0 controls (a
\* control other than tab, line feed and carriage return is written by name).
C0ControlOrSpace == {" ", "\t", "\n", "\r", "<control>"}

\* The characters urlsplit removes wherever they stand.
UnsafeToRemove == {"\t", "\r", "\n"}

IsKept(c) == c \notin UnsafeToRemove

FirstKept(url) ==
    LET I == {i \in 1..Len(url) : url[i] \notin C0ControlOrSpace}
    IN  IF I = {} THEN Len(url) + 1 ELSE SetMin(I)

\* url.lstrip(_WHATWG_C0_CONTROL_OR_SPACE), then tab, CR and LF removed
Sanitized(url) == SelectSeq(From(url, FirstKept(url)), IsKept)

\* The scheme is the text before the first ":" (at 1-based position i) when it
\* starts with a letter and is made of scheme characters; it is lower-cased.
SchemeAt(url, i) ==
    IF /\ i > 1
       /\ url[1] \in AlphaChars
       /\ \A k \in 1..(i - 1) : url[k] \in SchemeChars
    THEN [scheme |-> Lower(SubSeq(url, 1, i - 1)), rest |-> From(url, i + 1)]
    ELSE [scheme |-> <<>>, rest |-> url]

SplitScheme(url) == SchemeAt(url, Find(url, ":", 1))

\* _splitnetloc(url, 2): the end of the netloc is the first of "/", "?", "#"
NetlocEnd(url) ==
    LET D == {i \in 3..Len(url) : url[i] \in {"/", "?", "#"}}
    IN  IF D = {} THEN Len(url) + 1 ELSE SetMin(D)

\* After "//" comes the netloc, up to 1-based position e (exclusive).
NetlocAt(scheme, rest, e) ==
    IF StartsWith(rest, <<"/", "/">>)
    THEN [scheme |-> scheme, netloc |-> SubSeq(rest, 3, e - 1), rest |-> From(rest, e)]
    ELSE [scheme |-> scheme, netloc |-> <<>>, rest |-> rest]

SplitNetloc(s) == NetlocAt(s.scheme, s.rest, NetlocEnd(s.rest))

\* s cut at 1-based position i (0: no cut): what comes before and after
CutAt(s, i) ==
    IF i > 0 THEN [head |-> SubSeq(s, 1, i - 1), tail |-> From(s, i + 1)]
    ELSE [head |-> s, tail |-> <<>>]

\* url.split(c, 1) when c occurs in url
Partition(s, c) == CutAt(s, Find(s, c, 1))

\* The text between the first "[" of the netloc and the "]" that follows it.
BracketedHost(netloc) ==
    CutAt(CutAt(netloc, Find(netloc, "[", 1)).tail,
          Find(CutAt(netloc, Find(netloc, "[", 1)).tail, "]", 1)).head

HexChars == DigitChars \cup {"a","b","c","d","e","f","A","B","C","D","E","F"}

\* \Av[a-fA-F0-9]+\..+\Z
IsIPvFuture(h) ==
    /\ Len(h) >= 4
    /\ h[1] = "v"
    /\ \E i \in 3..(Len(h) - 1) :
          /\ h[i] = "."
          /\ \A k \in 2..(i - 1) : h[k] \in HexChars
    /\ ~Contains(h, "\n")

\* _check_bracketed_host: the host in brackets must be an IPvFuture or an
\* IPv6 address.  The grammar of an IPv6 address is not modelled: what holds
\* a ":" and does not start with "v" is taken for one, nothing else is.
BracketedHostAccepted(h) ==
    IF h # <<>> /\ h[1] = "v" THEN IsIPvFuture(h) ELSE Contains(h, ":")

\* A netloc with "[" and no "]" (or the reverse) raises ValueError("Invalid
\* IPv6 URL"), and so does one whose bracketed host is no IP literal.
NetlocRefused(netloc) ==
    \/ Contains(netloc, "[") # Contains(netloc, "]")
    \/ Contains(netloc, "[") /\ ~BracketedHostAccepted(BracketedHost(netloc))

SplitResult(n, f, q) ==
    IF NetlocRefused(n.netloc)
    THEN [raised |-> "ValueError", scheme |-> <<>>, netloc |-> <<>>,
          path |-> <<>>, query |-> <<>>, fragment |-> <<>>]
    ELSE [raised |-> "none", scheme |-> n.scheme, netloc |-> n.netloc,
          path |-> q.head, query |-> q.tail, fragment |-> f.tail]

SplitQuery(n, f) == SplitResult(n, f, Partition(f.head, "?"))
SplitFragment(n) == SplitQuery(n, Partition(n.rest, "#"))

\* urlsplit: [raised, scheme, netloc, path, query, fragment]
urlsplit(url) == SplitFragment(SplitNetloc(SplitScheme(Sanitized(url))))

\* _splitparams: ";params" is cut from the last path segment
SplitParamsPath(path) ==
    LET i == Find(path, ";", RFind(path, "/") + 1)
    IN  IF i = 0 THEN path ELSE SubSeq(path, 1, i - 1)

SplitParams(r) ==
    IF r.raised = "none" /\ r.scheme \in UsesParams /\ Contains(r.path, ";")
    THEN [r EXCEPT !.path = SplitParamsPath(r.path)]
    ELSE r

urlparse(url) == SplitParams(urlsplit(url))

(***************************************************************************)
(* utils.py: the endpoint functions                                        *)
(***************************************************************************)
HttpsPrefix == <<"h","t","t","p","s",":","/","/">>
HttpPrefix == <<"h","t","t","p",":","/","/">>
BlobDomain == <<".","b","l","o","b",".","c","o","r","e",".",
                "w","i","n","d","o","w","s",".","n","e","t">>
LocalhostColon == <<"l","o","c","a","l","h","o","s","t",":">>
LoopbackColon == <<"1","2","7",".","0",".","0",".","1",":">>

\* [a-z0-9]+(\.[a-z0-9]+)*
MatchesLabels(s) ==
    /\ Len(s) > 0
    /\ \A i \in 1..Len(s) : s[i] \in LowerChars \cup DigitChars \cup {"."}
    /\ s[1] # "." /\ s[Len(s)] # "."
    /\ \A i \in 1..(Len(s) - 1) : ~(s[i] = "." /\ s[i + 1] = ".")

\* \/?(.+)?$ : anything, as long as no line break comes before the last character
MatchesRest(s) == \A i \in 1..(Len(s) - 1) : s[i] # "\n"

\* ^https:\/\/[a-z0-9]+(\.[a-z0-9]+)*\.blob\.core\.windows\.net\/?(.+)?$
MatchesBlobPattern(e) ==
    /\ StartsWith(e, HttpsPrefix)
    /\ \E i \in (Len(HttpsPrefix) + 1)..(Len(e) - Len(BlobDomain)) :
          /\ MatchesLabels(SubSeq(e, Len(HttpsPrefix) + 1, i))
          /\ SubSeq(e, i + 1, i + Len(BlobDomain)) = BlobDomain
          /\ MatchesRest(From(e, i + Len(BlobDomain) + 1))

\* ^http:\/\/<host>:\d+\/?(.+)?$ for the literal host (with its colon)
MatchesMockPattern(e, hostColon) ==
    LET pre == HttpPrefix \o hostColon
    IN  /\ StartsWith(e, pre)
        /\ Len(e) > Len(pre)
        /\ e[Len(pre) + 1] \in DigitChars
        /\ MatchesRest(From(e, Len(pre) + 2))

is_valid_blob_endpoint(e) == MatchesBlobPattern(e)

is_valid_mock_endpoint(e) ==
    MatchesMockPattern(e, LocalhostColon) \/ MatchesMockPattern(e, LoopbackColon)

\* parsed.netloc.split(".")[0], or the error urlparse raised
NetlocFirstLabel(p) ==
    IF p.raised # "none" THEN Raised(p.raised)
    ELSE Returned(SplitAll(p.netloc, ".")[1])

parse_account_name_from_blob_endpoint_url(e) ==
    IF ~is_valid_blob_endpoint(e) THEN Raised("ValueError")
    ELSE NetlocFirstLabel(urlparse(e))

\* parsed.path.lstrip("/"), or the error urlparse raised
PathLStripped(p) ==
    IF p.raised # "none" THEN Raised(p.raised)
    ELSE Returned(LStrip(p.path, "/"))

\* parsed.path as it is, the leading "/" kept
PathUnstripped(p) ==
    IF p.raised # "none" THEN Raised(p.raised) ELSE Returned(p.path)

\* the lstrip("/") forgotten
parse_account_name_from_mock_endpoint_url_nostrip(e) == PathUnstripped(urlparse(e))

parse_account_name_from_mock_endpoint_url(e) == PathLStripped(urlparse(e))

\* StorageProviderSettings.set_storage_account_name: what storage_account_name
\* is set to, or what is raised
set_storage_account_name(e) ==
    IF is_valid_mock_endpoint(e)
    THEN parse_account_name_from_mock_endpoint_url(e)
    ELSE parse_account_name_from_blob_endpoint_url(e)

(***************************************************************************)
(* utils.py: the query parsing functions                                   *)
(***************************************************************************)

\* Each function turns whatever its body raises into ValueError.
Netloc(p) ==
    IF p.raised # "none" THEN Raised("ValueError") ELSE Returned(p.netloc)

parse_query_account_name(q) == Netloc(urlparse(q))

\* pieces[1] of Python: the second piece, IndexError when there is none
SecondPiece(pieces) ==
    IF Len(pieces) < 2 THEN Raised("ValueError") ELSE Returned(pieces[2])

\* parsed.path.split("/")[1]
PathSecondPiece(p) ==
    IF p.raised # "none" THEN Raised("ValueError")
    ELSE SecondPiece(SplitAll(p.path, "/"))

parse_query_container_name(q) == PathSecondPiece(urlparse(q))

\* pieces[-1]
LastPiece(pieces) == pieces[Len(pieces)]

\* parsed.path.split("/", n)[-1]
PathLastPiece(p, n) ==
    IF p.raised # "none" THEN Raised("ValueError")
    ELSE Returned(LastPiece(Split(p.path, "/", n)))

\* a slip in the split limit: split("/", 1) keeps the container in the path
parse_query_path_split1(q) == PathLastPiece(urlparse(q), 1)

parse_query_path(q) == PathLastPiece(urlparse(q), 2)

(***************************************************************************)
(* StorageProvider.is_valid_query                                          *)
(***************************************************************************)
AzScheme == <<"a", "z">>

ValidationResult(v, r) == [raised |-> "none", valid |-> v, reason |-> r]

\* `parsed.netloc.isalnum` names the bound method and does not call it: in a
\* condition the method object is true whatever the string holds.
isalnum_uncalled(s) == TRUE

\* reason is "" where the code leaves it None
ValidationOf(p, schemeTested) ==
    IF p.raised # "none"
    THEN ValidationResult(FALSE, "cannot be parsed as URL")
    ELSE IF schemeTested /\ p.scheme # AzScheme
    THEN ValidationResult(FALSE, "must start with az (az://...)")
    ELSE IF ~isalnum_uncalled(p.netloc)
    THEN ValidationResult(FALSE,
             "azure storage account name must be strictly alphanumeric")
    ELSE ValidationResult(TRUE, "")

\* the scheme test left out
is_valid_query_any_scheme(q) == ValidationOf(urlparse(q), FALSE)

is_valid_query(q) == ValidationOf(urlparse(q), TRUE)

(***************************************************************************)
(* Bounded inputs                                                          *)
(***************************************************************************)
StringsUpTo(A, n) == UNION {[1..k -> A] : k \in 0..n}

AzPrefix == <<"a", "z", ":", "/", "/">>

MaxQueryLen == 6
QueryChars == {"a", "c", "/", "?", "#"}
ShortQueries == {AzPrefix \o b : b \in StringsUpTo(QueryChars, MaxQueryLen)}

\* Three-part queries whose parts hold characters that URL parsing treats
\* specially.
MaxPartLen == 1
PartChars == {"a", "c", "\t", "[", "]", "@"}
PartQueries ==
    {AzPrefix \o a \o <<"/">> \o c \o <<"/">> \o p :
        a \in StringsUpTo(PartChars, MaxPartLen),
        c \in StringsUpTo(PartChars, MaxPartLen),
        p \in StringsUpTo(PartChars, MaxPartLen)}

ParseQueries == ShortQueries \cup PartQueries

\* Queries for validation: a scheme part (the az scheme in several spellings,
\* another scheme, none) followed by any short text.
MaxValidLen == 5
ValidChars == {"a", "*", "/", "-", "["}
SchemeParts == {AzPrefix,
                <<"A", "z", ":", "/", "/">>,
                <<"a", "z", ":">>,
                <<"s", "3", ":", "/", "/">>,
                <<"z", "a", ":", "/", "/">>,
                <<"a", "z", "/", "/">>,
                <<"/", "/">>,
                <<" ", "a", "z", ":", "/", "/">>,
                <<"a", "\t", "z", ":", "/", "/">>,
                <<>>}
ValidQueries == {s \o b : s \in SchemeParts, b \in StringsUpTo(ValidChars, MaxValidLen)}

\* Endpoints: a scheme part, a first part of the host, a domain part and a
\* tail of any short text.
MaxTailLen == 3
TailChars == {"/", "a", "1", "?", "@", "[", "\t"}
EndpointSchemes == {HttpsPrefix, HttpPrefix, <<>>}
HostHeads == {<<>>, <<"a">>, <<"a", "1", ".", "c">>, <<"A">>, <<"a", ".">>, <<".", "a">>}
DomainParts == {BlobDomain,
                <<".","b","l","o","b",".","c","o","r","e",".",
                  "w","i","n","d","o","w","s",".","c","o","m">>,
                <<".","b","l","o","b","x","c","o","r","e",".",
                  "w","i","n","d","o","w","s",".","n","e","t">>,
                LocalhostColon,
                LoopbackColon,
                <<"1","2","7","x","0",".","0",".","1",":">>}
Endpoints ==
    {s \o h \o d \o t : s \in EndpointSchemes, h \in HostHeads, d \in DomainParts,
                        t \in StringsUpTo(TailChars, MaxTailLen)}

QueryIdle == query = <<>> /\ parsed = Unset /\ validation = Unset
EndpointIdle == endpoint = <<>> /\ epout = Unset

(***************************************************************************)
(* SpecParse: the three parse_query_* functions applied to a query         *)
(***************************************************************************)
InitParse ==
    /\ query \in ParseQueries
    /\ parsed = [account |-> Unset, container |-> Unset, path |-> Unset]
    /\ validation = Unset
    /\ EndpointIdle
    /\ StorageIdle

ParseQueryAccountName ==
    /\ parsed.account = Unset
    /\ parsed' = [parsed EXCEPT !.account = parse_query_account_name(query)]
    /\ UNCHANGED <<query, validation, endpoint, epout, storage>>

ParseQueryContainerName ==
    /\ parsed.container = Unset
    /\ parsed' = [parsed EXCEPT !.container = parse_query_container_name(query)]
    /\ UNCHANGED <<query, validation, endpoint, epout, storage>>

ParseQueryPath ==
    /\ parsed.path = Unset
    /\ parsed' = [parsed EXCEPT !.path = parse_query_path(query)]
    /\ UNCHANGED <<query, validation, endpoint, epout, storage>>

NextParse == ParseQueryAccountName \/ ParseQueryContainerName \/ ParseQueryPath

SpecParse == InitParse /\ [][NextParse]_vars

(***************************************************************************)
(* C1                                                                      *)
(***************************************************************************)
\* The text that follows "az://" in the query.
QueryBody == From(query, Len(AzPrefix) + 1)

\* The A, C and P of a three-part query az://A/C/P: A runs to the first "/",
\* C from there to the second "/", P is all that follows.
Slash1 == Find(QueryBody, "/", 1)
Slash2 == Find(QueryBody, "/", Slash1 + 1)
PartA == SubSeq(QueryBody, 1, Slash1 - 1)
PartC == SubSeq(QueryBody, Slash1 + 1, Slash2 - 1)
PartP == From(QueryBody, Slash2 + 1)

\* az://A/C/P with A and C non-empty and free of "/", P non-empty.
ThreePartQuery ==
    /\ StartsWith(query, AzPrefix)
    /\ Slash1 > 1
    /\ Slash2 > Slash1 + 1
    /\ Slash2 < Len(QueryBody)

AllParsed ==
    /\ parsed.account # Unset
    /\ parsed.container # Unset
    /\ parsed.path # Unset

ParsedAsWritten ==
    /\ parsed.account = Returned(PartA)
    /\ parsed.container = Returned(PartC)
    /\ parsed.path = Returned(PartP)
    /\ parsed.account.value \o <<"/">> \o parsed.container.value
           \o <<"/">> \o parsed.path.value = QueryBody

\* "?" and "#" end the URL path (and the netloc): urlparse cuts the query
\* string and the fragment off before the plugin sees account, container, path.
\* It removes tab, carriage return and line feed, and it refuses an account
\* with a bracket that is no IP literal.
NoUrlDelimiter ==
    /\ \A i \in 1..Len(QueryBody) : QueryBody[i] \notin {"?", "#", "\t", "\r", "\n"}
    /\ ~Contains(PartA, "[")
    /\ ~Contains(PartA, "]")

InitValid ==
    /\ query \in ValidQueries
    /\ parsed = Unset
    /\ validation = Unset
    /\ EndpointIdle
    /\ StorageIdle

IsValidQuery ==
    /\ validation = Unset
    /\ validation' = is_valid_query(query)
    /\ UNCHANGED <<query, parsed, endpoint, epout, storage>>

NextValid == IsValidQuery

SpecValid == InitValid /\ [][NextValid]_vars

(***************************************************************************)
(* C3                                                                      *)
(***************************************************************************)
\* The legal characters of a container name.
ContainerChars == AlnumChars \cup {"-"}

\* The account and container segments of an az:// query: the text up to the
\* first "/" after "az://", and the text from there to the next "/".
Segments == SplitAll(QueryBody, "/")
AccountSegment == Segments[1]
ContainerSegment == IF Len(Segments) >= 2 THEN Segments[2] ELSE <<>>

IllegalAccountOrContainer ==
    /\ StartsWith(query, AzPrefix)
    /\ \/ ~IsAlnum(AccountSegment)
       \/ \E i \in 1..Len(ContainerSegment) : ContainerSegment[i] \notin ContainerChars

\* C3 as stated: is_valid_query returns valid = False for every az:// query
\* whose account segment is not strictly alphanumeric or whose container
\* segment holds a character outside the legal container-name set.
C3_AsStated ==
    (validation # Unset /\ IllegalAccountOrContainer) => validation.valid = FALSE

(***************************************************************************)
(* C4                                                                      *)
(***************************************************************************)
\* The query as a URL reader takes it: blanks in front, and tab, carriage
\* return and line feed anywhere, do not count.
Blanks == {" ", "\t", "\r", "\n"}
WithoutBlanks(q) ==
    LET I == {i \in 1..Len(q) : q[i] \notin Blanks}
        first == IF I = {} THEN Len(q) + 1 ELSE SetMin(I)
    IN  SelectSeq(From(q, first), LAMBDA c : c \notin {"\t", "\r", "\n"})

\* The query carries the az scheme: it starts with "az:" (a scheme is
\* case-insensitive).
CarriesAzScheme == StartsWith(Lower(WithoutBlanks(query)), <<"a", "z", ":">>)

\* C4: for every query that does not carry the az scheme, is_valid_query
\* returns without raising a result with valid = False and a non-empty reason.
C4_NoSchemeInvalid ==
    (validation # Unset /\ ~CarriesAzScheme) =>
        /\ validation.raised = "none"
        /\ validation.valid = FALSE
        /\ validation.reason # ""

\* A query with another scheme was validated and rejected for its scheme.
C4_Witness ==
    /\ validation # Unset
    /\ ~CarriesAzScheme
    /\ StartsWith(query, <<"s", "3", ":">>)
    /\ validation.reason = "must start with az (az://...)"

(***************************************************************************)
(* The az generation: endpoint validation and settings                     *)
(***************************************************************************)
AzMockPrefix == HttpPrefix \o LoopbackColon \o <<"1","0","0","0","0","/">>

\* ^http://127\.0\.0\.1:10000/[a-zA-Z0-9]+$
MatchesAzMockPattern(e) ==
    /\ StartsWith(e, AzMockPrefix)
    /\ \E n \in (Len(AzMockPrefix) + 1)..Len(e) :
          /\ \A i \in (Len(AzMockPrefix) + 1)..n : e[i] \in AlnumChars
          /\ \/ n = Len(e)
             \/ n = Len(e) - 1 /\ e[Len(e)] = "\n"

is_valid_azure_blob_endpoint(e) == MatchesBlobPattern(e) \/ MatchesAzMockPattern(e)

\* `self.endpoint_url_is_mock` names the bound method and does not call it:
\* the condition is true for every endpoint.
endpoint_url_is_mock_uncalled == TRUE

\* what set_storage_account_name of the az generation leaves in
\* storage_account_name (Unset when it assigns nothing), or what it raises
AzAccountName(p, isMock) ==
    IF p.raised # "none" THEN Raised("ValueError")
    ELSE IF isMock THEN Returned(LStrip(p.path, "/"))
    ELSE IF p.netloc # <<>> THEN Returned(SplitAll(p.netloc, ".")[1])
    ELSE Unset

az_set_storage_account_name(e) ==
    AzAccountName(urlparse(e), endpoint_url_is_mock_uncalled)

\* StorageProviderSettings.__post_init__ of each generation, for an
\* endpoint_url that is given
azure_settings_post_init(e) == set_storage_account_name(e)

az_settings_post_init(e) ==
    IF ~is_valid_azure_blob_endpoint(e) THEN Raised("ValueError")
    ELSE az_set_storage_account_name(e)

settings_post_init(gen, e) ==
    IF gen = "azure" THEN azure_settings_post_init(e) ELSE az_settings_post_init(e)

(***************************************************************************)
(* SpecEndpoint: the endpoint functions applied to an endpoint_url         *)
(***************************************************************************)
InitEndpoint ==
    /\ endpoint \in Endpoints
    /\ epout = Unset
    /\ QueryIdle
    /\ StorageIdle

EndpointCall(op, res) ==
    /\ epout = Unset
    /\ epout' = [op |-> op, res |-> res]
    /\ UNCHANGED <<endpoint, query, parsed, validation, storage>>

IsValidBlobEndpoint ==
    EndpointCall("is_valid_blob_endpoint", Returned(is_valid_blob_endpoint(endpoint)))

IsValidMockEndpoint ==
    EndpointCall("is_valid_mock_endpoint", Returned(is_valid_mock_endpoint(endpoint)))

ParseAccountNameFromBlobEndpointUrl ==
    EndpointCall("parse_account_name_from_blob_endpoint_url",
                 parse_account_name_from_blob_endpoint_url(endpoint))

ParseAccountNameFromMockEndpointUrl ==
    EndpointCall("parse_account_name_from_mock_endpoint_url",
                 parse_account_name_from_mock_endpoint_url(endpoint))

SetStorageAccountName ==
    EndpointCall("set_storage_account_name", set_storage_account_name(endpoint))

\* StorageProviderSettings(endpoint_url=...) of the az generation
AzSettingsPostInit ==
    EndpointCall("az_settings_post_init", az_settings_post_init(endpoint))

NextEndpoint ==
    \/ IsValidBlobEndpoint
    \/ IsValidMockEndpoint
    \/ ParseAccountNameFromBlobEndpointUrl
    \/ ParseAccountNameFromMockEndpointUrl
    \/ SetStorageAccountName
    \/ AzSettingsPostInit

SpecEndpoint == InitEndpoint /\ [][NextEndpoint]_vars

(***************************************************************************)
(* C5                                                                      *)
(***************************************************************************)
\* What follows the scheme prefix pre in e.
After(e, pre) == From(e, Len(pre) + 1)

\* https://<label>(.<label>)*.blob.core.windows.net, then nothing or "/" and
\* further characters.
IntendedBlobForm(e) ==
    /\ StartsWith(e, HttpsPrefix)
    /\ \E i \in 1..Len(After(e, HttpsPrefix)) :
          /\ MatchesLabels(SubSeq(After(e, HttpsPrefix), 1, i))
          /\ StartsWith(From(After(e, HttpsPrefix), i + 1), BlobDomain)
          /\ LET rest == From(After(e, HttpsPrefix), i + 1 + Len(BlobDomain))
             IN  rest = <<>> \/ rest[1] = "/"

\* C5 as stated: is_valid_blob_endpoint returns True exactly for the strings
\* https://<label>(.<label>)*.blob.core.windows.net optionally followed by "/"
\* and further characters (so that every accepted host ends in
\* .blob.core.windows.net).
C5_AsStated ==
    (epout # Unset /\ epout.op = "is_valid_blob_endpoint") =>
        epout.res = Returned(IntendedBlobForm(endpoint))

(***************************************************************************)
(* C6                                                                      *)
(***************************************************************************)
\* The authority of a URL that starts with the prefix pre: up to the first
\* "/", "?" or "#".
Authority(e, pre) ==
    LET a == After(e, pre)
        D == {i \in 1..Len(a) : a[i] \in {"/", "?", "#"}}
    IN  IF D = {} THEN a ELSE SubSeq(a, 1, SetMin(D) - 1)

\* The host of an authority: what follows the user information ("...@"),
\* without the ":port".
HostOf(auth) ==
    LET h == From(auth, RFind(auth, "@") + 1)
        c == Find(h, ":", 1)
    IN  IF c = 0 THEN h ELSE SubSeq(h, 1, c - 1)

\* The first dot-separated label of a host.
FirstLabel(h) ==
    LET d == Find(h, ".", 1)
    IN  IF d = 0 THEN h ELSE SubSeq(h, 1, d - 1)

\* C6 as stated: for every endpoint is_valid_blob_endpoint accepts,
\* parse_account_name_from_blob_endpoint_url returns the first label of the
\* endpoint's host; for every other endpoint it raises ValueError.
C6_AsStated ==
    (epout # Unset /\ epout.op = "parse_account_name_from_blob_endpoint_url") =>
        IF is_valid_blob_endpoint(endpoint)
        THEN epout.res = Returned(FirstLabel(HostOf(Authority(endpoint, HttpsPrefix))))
        ELSE epout.res = Raised("ValueError")

(***************************************************************************)
(* C7                                                                      *)
(***************************************************************************)
\* http://localhost: or http://127.0.0.1: when e starts with it
MockHostPrefix(e) ==
    IF StartsWith(e, HttpPrefix \o LocalhostColon) THEN HttpPrefix \o LocalhostColon
    ELSE IF StartsWith(e, HttpPrefix \o LoopbackColon) THEN HttpPrefix \o LoopbackColon
    ELSE <<>>

\* The number of digits s starts with.
LeadingDigits(s) ==
    LET N == {i \in 1..Len(s) : s[i] \notin DigitChars}
    IN  IF N = {} THEN Len(s) ELSE SetMin(N) - 1

\* What follows http://<host>:<port> in e.
AfterPort(e) ==
    LET r == After(e, MockHostPrefix(e))
    IN  From(r, LeadingDigits(r) + 1)

\* http://<host>:<port>, host localhost or 127.0.0.1, port one or more digits
HasMockHostAndPort(e) ==
    /\ MockHostPrefix(e) # <<>>
    /\ LeadingDigits(After(e, MockHostPrefix(e))) >= 1

\* http://<host>:<port>/<account> with a non-empty account
HasMockAccount(e) ==
    /\ HasMockHostAndPort(e)
    /\ Len(AfterPort(e)) >= 2
    /\ AfterPort(e)[1] = "/"

\* The final "/"-separated segment of what follows the port.
FinalSegment(e) == From(AfterPort(e), RFind(AfterPort(e), "/") + 1)

\* "/<account>" with one segment that holds none of the URL delimiters
SingleSegmentAccount(e) ==
    /\ Len(AfterPort(e)) >= 1
    /\ AfterPort(e)[1] = "/"
    /\ \A i \in 2..Len(AfterPort(e)) :
          AfterPort(e)[i] \notin {"/", "?", "#", ";", "\t", "\r", "\n"}

DerivesAccount ==
    /\ epout # Unset
    /\ epout.op \in {"set_storage_account_name",
                     "parse_account_name_from_mock_endpoint_url"}
    /\ is_valid_mock_endpoint(endpoint)

\* C7 as stated: every endpoint accepted as an emulator endpoint has the form
\* http://<host>:<port>/<account> with a non-empty account, and the account
\* name derived from it is the final path segment of the endpoint.
C7_AsStated ==
    /\ (epout # Unset /\ epout.op = "is_valid_mock_endpoint"
          /\ epout.res = Returned(TRUE)) => HasMockAccount(endpoint)
    /\ DerivesAccount => epout.res = Returned(FinalSegment(endpoint))

\* C7 amended: every endpoint accepted as an emulator endpoint starts with
\* http://<host>:<port>, host localhost or 127.0.0.1 and port one or more
\* digits; anything, or nothing, may follow.  When nothing follows the derived
\* account name is empty, and when "/<account>" follows, the account one
\* segment free of "/", "?", "#", ";", tab, carriage return and line feed, the
\* derived name is that account.
C7_MockEndpoint ==
    /\ (epout # Unset /\ epout.op = "is_valid_mock_endpoint"
          /\ epout.res = Returned(TRUE)) => HasMockHostAndPort(endpoint)
    /\ (DerivesAccount /\ AfterPort(endpoint) = <<>>) => epout.res = Returned(<<>>)
    /\ (DerivesAccount /\ SingleSegmentAccount(endpoint)) =>
          epout.res = Returned(From(AfterPort(endpoint), 2))

\* The settings derived the account "a" from http://localhost:1/a.
C7_Witness ==
    /\ epout # Unset
    /\ epout.op = "set_storage_account_name"
    /\ endpoint = HttpPrefix \o LocalhostColon \o <<"1", "/", "a">>
    /\ epout.res = Returned(<<"a">>)

(***************************************************************************)
(* The az generation: query parsing                                        *)
(***************************************************************************)
RECURSIVE Flatten(_)
\* "".join(pieces)
Flatten(pieces) ==
    IF pieces = <<>> THEN <<>> ELSE Head(pieces) \o Flatten(Tail(pieces))

RECURSIVE Join(_, _)
\* sep.join(pieces)
Join(pieces, sep) ==
    IF pieces = <<>> THEN <<>>
    ELSE IF Len(pieces) = 1 THEN pieces[1]
    ELSE pieces[1] \o sep \o Join(Tail(pieces), sep)

\* The characters of codes 32 to 126; the double quote, the backslash and
\* the backtick are written by name.
Printable ==
    <<" ","!","<quote>","#","$","%","&","'","(",")","*","+",",","-",".","/",
      "0","1","2","3","4","5","6","7","8","9",":",";","<","=",">","?",
      "@","A","B","C","D","E","F","G","H","I","J","K","L","M","N","O",
      "P","Q","R","S","T","U","V","W","X","Y","Z","[","<backslash>","]","^","_",
      "<backtick>","a","b","c","d","e","f","g","h","i","j","k","l","m","n","o",
      "p","q","r","s","t","u","v","w","x","y","z","{","|","}","~">>

HexSeq == <<"0","1","2","3","4","5","6","7","8","9","a","b","c","d","e","f">>
HexVal(c) == (CHOOSE i \in 1..Len(HexSeq) : HexSeq[i] = LowerChar(c)) - 1

\* The character a decoded byte stands for.  A control character other than
\* tab, line feed and carriage return, and a byte outside ASCII, is kept as an
\* opaque character: none of them is "/" or ".".
ByteChar(code) ==
    IF code >= 32 /\ code <= 126 THEN Printable[code - 31]
    ELSE IF code = 9 THEN "\t"
    ELSE IF code = 10 THEN "\n"
    ELSE IF code = 13 THEN "\r"
    ELSE IF code < 128 THEN "<control>"
    ELSE "<non-ascii>"

\* One piece that followed a "%": two hex digits are decoded, anything else
\* keeps its "%".
UnquotePiece(x) ==
    IF Len(x) >= 2 /\ x[1] \in HexChars /\ x[2] \in HexChars
    THEN <<ByteChar(16 * HexVal(x[1]) + HexVal(x[2]))>> \o From(x, 3)
    ELSE <<"%">> \o x

UnquotePieces(pieces) ==
    pieces[1] \o Flatten([k \in 1..(Len(pieces) - 1) |-> UnquotePiece(pieces[k + 1])])

\* urllib.parse.unquote
unquote(s) == IF ~Contains(s, "%") THEN s ELSE UnquotePieces(SplitAll(s, "%"))

\* The root of a POSIX path: "//" for exactly two leading slashes, "/" for
\* any other number of them, none for a relative path.
PosixRoot(s) ==
    IF s = <<>> \/ s[1] # "/" THEN <<>>
    ELSE IF Len(s) - Len(LStrip(s, "/")) = 2 THEN <<"/", "/">>
    ELSE <<"/">>

IsPathComponent(x) == x # <<>> /\ x # <<".">>

\* PosixPath(s).parts
PosixParts(s) ==
    (IF PosixRoot(s) = <<>> THEN <<>> ELSE <<PosixRoot(s)>>)
        \o SelectSeq(SplitAll(LStrip(s, "/"), "/"), IsPathComponent)

QueryParts(account, parts) ==
    [raised |-> "none",
     account |-> account,
     container |-> IF Len(parts) > 2 THEN parts[2] ELSE <<>>,
     path |-> Join(SubSeq(parts, 3, Len(parts)), <<"/">>)]

\* When urlparse raises, the handler formats path_parts, which is not bound
\* yet.
ParsedQueryParts(p) ==
    IF p.raised # "none" THEN Raised("UnboundLocalError")
    ELSE QueryParts(p.netloc, PosixParts(unquote(p.path)))

\* StorageProvider.parse_query_parts of the az generation
parse_query_parts(q) == ParsedQueryParts(urlparse(q))

(***************************************************************************)
(* StorageObject.__post_init__                                             *)
(***************************************************************************)
\* The three attributes in the order the azure generation assigns them: the
\* first parse function that raises ends the construction.
AttributesOf(a, p, c) ==
    IF a.raised # "none" THEN Raised(a.raised)
    ELSE IF p.raised # "none" THEN Raised(p.raised)
    ELSE IF c.raised # "none" THEN Raised(c.raised)
    ELSE [raised |-> "none", account |-> a.value, container |-> c.value,
          path |-> p.value]

azure_attributes(q) ==
    AttributesOf(parse_query_account_name(q), parse_query_path(q),
                 parse_query_container_name(q))

query_attributes(gen, q) ==
    IF gen = "azure" THEN azure_attributes(q) ELSE parse_query_parts(q)

\* the comparison left out
account_never_differs(account, configured) == FALSE

\* self.account_name != self.provider.settings.storage_account_name
account_differs(account, configured) == account # configured

Constructed(q, valid, a) ==
    [built |-> TRUE, query |-> q, valid |-> valid,
     account_name |-> IF valid THEN Returned(a.account) ELSE Unset,
     container_name |-> IF valid THEN Returned(a.container) ELSE Unset,
     blob_path |-> IF valid THEN Returned(a.path) ELSE Unset]

\* A query that is not valid leaves the object without the attributes.
PostInit(q, v, a, configured) ==
    IF ~v.valid THEN [raised |-> "none", obj |-> Constructed(q, FALSE, a)]
    ELSE IF a.raised # "none" THEN [raised |-> a.raised, obj |-> NoObject]
    ELSE IF account_differs(a.account, configured)
    THEN [raised |-> "ValueError", obj |-> NoObject]
    ELSE [raised |-> "none", obj |-> Constructed(q, TRUE, a)]

post_init(gen, q, configured) ==
    PostInit(q, is_valid_query(q), query_attributes(gen, q), configured)

(***************************************************************************)
(* The storage account behind the BlobServiceClient                        *)
(***************************************************************************)
Generations == {"azure", "az"}

SettingsEndpoints ==
    { HttpsPrefix \o <<"a">> \o BlobDomain,
      HttpsPrefix \o <<"b">> \o BlobDomain \o <<"/", "a">>,
      AzMockPrefix \o <<"a">> }

AzSlashes == <<"a", "z", ":", "/", "/">>
S3Slashes == <<"s", "3", ":", "/", "/">>

ObjectQueries ==
    { AzSlashes \o <<"a", "/", "c", "/", "p">>,
      AzSlashes \o <<"a", "/", "c", "/", "q">>,
      AzSlashes \o <<"a", "/", "d", "/", "p">>,
      AzSlashes \o <<"b", "/", "c", "/", "p">>,
      S3Slashes \o <<"a", "/", "c", "/", "p">> }

ContainerNames == {<<"c">>, <<"d">>}
BlobKeys == {<<"p">>, <<"q">>}
Contents == {"v1", "v2"}

\* What the service does with a call: serve it, or fail it with a forbidden
\* answer, another HTTP error, or an error below HTTP.
Faults == {"ok", "403", "500", "io"}

FaultError(f) ==
    CASE f = "client" -> "AttributeError"
      [] f = "403" -> "HttpResponseError(403)"
      [] f = "404" -> "HttpResponseError(404)"
      [] f = "409" -> "HttpResponseError(409)"
      [] f = "500" -> "HttpResponseError(500)"
      [] OTHER -> "ServiceRequestError"

IsHttpResponseError(exc) ==
    exc \in {"HttpResponseError(403)", "HttpResponseError(404)",
             "HttpResponseError(409)", "HttpResponseError(500)"}

Answer(call, a) == [call |-> call, answer |-> a]

\* ContainerClient.exists()
ContainerAnswer(c, f) ==
    IF f # "ok" THEN f ELSE IF c \in containers THEN "True" ELSE "False"

HoldsBlob(c, k) == c \in containers /\ blobs[<<c, k>>] # Absent

\* BlobClient.exists()
BlobAnswer(c, k, f) ==
    IF f # "ok" THEN f ELSE IF HoldsBlob(c, k) THEN "True" ELSE "False"

\* What the service does with a request to create container c.
CreateRequested(c, f) ==
    IF f # "ok" THEN f ELSE IF c \in containers THEN "409" ELSE "ok"

\* self.container().create_container(self.container_name): the ContainerClient
\* is bound to its container and create_container(metadata=None,
\* public_access=None, **kwargs) takes the name as metadata.  Metadata is a
\* dict whose items() become request headers: for a str, which has no items(),
\* the call raises AttributeError in the client and no request is sent.  (An
\* empty name, for which the metadata is skipped, has no ContainerClient.)
CreateAnswer(c, f) == IF c # <<>> THEN "client" ELSE CreateRequested(c, f)

\* BlobClient.upload_blob(data, overwrite=True), cs the containers at the call
UploadAnswer(c, cs, f) ==
    IF f # "ok" THEN f ELSE IF c \notin cs THEN "404" ELSE "ok"

\* BlobClient.delete_blob()
DeleteAnswer(c, k, f) ==
    IF f # "ok" THEN f ELSE IF ~HoldsBlob(c, k) THEN "404" ELSE "ok"

(***************************************************************************)
(* StorageObject: container_exists, exists, store_object, remove           *)
(***************************************************************************)
Outcome(raised, value, answers) ==
    [raised |-> raised, value |-> value, answers |-> answers]

\* container() and blob() read container_name and blob_path; on an object
\* without them the AttributeError is caught and raised as ConnectionError.
NoClient == Outcome("ConnectionError", "None", <<>>)

\* a forbidden answer taken for "no such container"
ForbiddenAsAbsent(ans) ==
    IF ans \in {"True", "False"}
    THEN Outcome("none", ans, <<Answer("container.exists", ans)>>)
    ELSE IF ans = "403"
    THEN Outcome("none", "False", <<Answer("container.exists", ans)>>)
    ELSE Outcome(FaultError(ans), "None", <<Answer("container.exists", ans)>>)

\* container_exists, given the answer to ContainerClient.exists()
ContainerExistsOutcome(ans) ==
    IF ans \in {"True", "False"}
    THEN Outcome("none", ans, <<Answer("container.exists", ans)>>)
    ELSE IF ans = "403"
    THEN Outcome("PermissionError", "None", <<Answer("container.exists", ans)>>)
    ELSE Outcome(FaultError(ans), "None", <<Answer("container.exists", ans)>>)

container_exists(o, f) ==
    IF ~o.valid THEN NoClient
    ELSE ContainerExistsOutcome(ContainerAnswer(o.container_name.value, f))

BlobExistsOutcome(ans, answers) ==
    IF ans \in {"True", "False"}
    THEN Outcome("none", ans, answers \o <<Answer("blob.exists", ans)>>)
    ELSE Outcome(FaultError(ans), "None", answers \o <<Answer("blob.exists", ans)>>)

\* the blob not asked for once the container is there
ExistsContainerOnly(ce, ans) == ce

\* exists, given what container_exists did and the answer to BlobClient.exists()
ExistsOutcome(ce, ans) ==
    IF ce.raised # "none" \/ ce.value = "False" THEN ce
    ELSE BlobExistsOutcome(ans, ce.answers)

exists(o, f1, f2) ==
    IF ~o.valid THEN NoClient
    ELSE ExistsOutcome(container_exists(o, f1),
                       BlobAnswer(o.container_name.value, o.blob_path.value, f2))

\* `except Exception as e: if e.status_code == 403: pass`: an error that
\* carries a status_code is dropped whatever the code is; reading status_code
\* of any other error raises AttributeError.
ExceptClause(exc) ==
    IF ~IsHttpResponseError(exc) THEN "AttributeError"
    ELSE IF exc = "HttpResponseError(403)" THEN "none"
    ELSE "none"

Step(raised, created, answers) ==
    [raised |-> raised, created |-> created, answers |-> answers]

CreateOutcome(ans, answers) ==
    IF ans = "ok" THEN Step("none", TRUE, answers \o <<Answer("create_container", ans)>>)
    ELSE Step(ExceptClause(FaultError(ans)), FALSE,
              answers \o <<Answer("create_container", ans)>>)

\* The try block of store_object and its except clause.
ContainerStep(ce, ans) ==
    IF ce.raised # "none" THEN Step(ExceptClause(ce.raised), FALSE, ce.answers)
    ELSE IF ce.value = "True" THEN Step("none", FALSE, ce.answers)
    ELSE CreateOutcome(ans, ce.answers)

ContainersAfter(step, c) == IF step.created THEN containers \cup {c} ELSE containers

\* an upload that leaves a blob that is there alone
UploadedUnlessPresent(b, c, k, v) ==
    IF b[<<c, k>>] # Absent THEN b ELSE [b EXCEPT ![<<c, k>>] = v]

\* upload_blob(data, overwrite=True)
Uploaded(b, c, k, v) == [b EXCEPT ![<<c, k>>] = v]

Stored(raised, answers, cs, b) ==
    [raised |-> raised, value |-> "None", answers |-> answers,
     containers |-> cs, blobs |-> b]

UploadOutcome(ans, answers, cs, c, k, v) ==
    IF ans = "ok"
    THEN Stored("none", answers \o <<Answer("upload_blob", ans)>>, cs,
                Uploaded(blobs, c, k, v))
    ELSE Stored(FaultError(ans), answers \o <<Answer("upload_blob", ans)>>, cs, blobs)

\* The az generation hands open() the bound method local_path instead of the
\* path it returns: TypeError.
UploadBlobToStorage(gen, step, cs, c, k, v, f) ==
    IF gen = "az" THEN Stored("TypeError", step.answers, cs, blobs)
    ELSE UploadOutcome(UploadAnswer(c, cs, f), step.answers, cs, c, k, v)

StoreAfter(gen, step, c, k, v, f) ==
    IF step.raised # "none" THEN Stored(step.raised, step.answers, containers, blobs)
    ELSE IF v = NoFile THEN Stored("none", step.answers, ContainersAfter(step, c), blobs)
    ELSE UploadBlobToStorage(gen, step, ContainersAfter(step, c), c, k, v, f)

store_object(gen, o, v, fe, fc, fu) ==
    IF ~o.valid
    THEN Stored(ExceptClause(NoClient.raised), <<>>, containers, blobs)
    ELSE StoreAfter(gen,
                    ContainerStep(container_exists(o, fe),
                                  CreateAnswer(o.container_name.value, fc)),
                    o.container_name.value, o.blob_path.value, v, fu)

\* a deletion that takes every blob whose key starts with k
DeletedWithPrefix(b, c, k) ==
    [x \in DOMAIN b |-> IF x[1] = c /\ StartsWith(x[2], k) THEN Absent ELSE b[x]]

\* delete_blob()
Deleted(b, c, k) == [b EXCEPT ![<<c, k>>] = Absent]

DeleteOutcome(ans, answers, c, k) ==
    IF ans = "ok"
    THEN Stored("none", answers \o <<Answer("delete_blob", ans)>>, containers,
                Deleted(blobs, c, k))
    ELSE Stored(FaultError(ans), answers \o <<Answer("delete_blob", ans)>>,
                containers, blobs)

RemoveAfter(be, c, k, f) ==
    IF be.raised # "none" \/ be.value = "False"
    THEN Stored(be.raised, be.answers, containers, blobs)
    ELSE DeleteOutcome(DeleteAnswer(c, k, f), be.answers, c, k)

remove(o, f1, f2) ==
    IF ~o.valid THEN Stored(NoClient.raised, <<>>, containers, blobs)
    ELSE RemoveAfter(BlobExistsOutcome(BlobAnswer(o.container_name.value,
                                                  o.blob_path.value, f1), <<>>),
                     o.container_name.value, o.blob_path.value, f2)

(***************************************************************************)
(* Spec: one provider, the storage object built from a query, and the      *)
(* calls the host makes on it, one after the other                         *)
(***************************************************************************)
\* again: the call before this one was the same method of the same object
Call(op, q, out, before) ==
    [op |-> op, query |-> q, raised |-> out.raised, value |-> out.value,
     answers |-> out.answers, before |-> before, again |-> last.op = op]

Init ==
    /\ QueryIdle
    /\ EndpointIdle
    /\ \E gen \in Generations, e \in SettingsEndpoints :
          /\ settings_post_init(gen, e).raised = "none"
          /\ settings = [generation |-> gen, endpoint_url |-> e,
                         storage_account_name |-> settings_post_init(gen, e).value]
    /\ obj = NoObject
    /\ localfile = NoFile
    /\ containers = {}
    /\ blobs = [x \in ContainerNames \X BlobKeys |-> Absent]
    /\ last = NoCall
    /\ AsideIdle

Built(q, made) ==
    /\ obj' = made.obj
    /\ last' = Call("construct", q, Outcome(made.raised, "None", <<>>), Absent)
    /\ UNCHANGED <<settings, localfile, containers, blobs, pure, aside>>

\* StorageObject(query, provider): __post_init__ runs at the end of __init__
Construct ==
    \E q \in ObjectQueries :
        Built(q, post_init(settings.generation, q, settings.storage_account_name))

BlobBefore ==
    IF obj.valid THEN blobs[<<obj.container_name.value, obj.blob_path.value>>]
    ELSE Absent

Asked(op, out) ==
    /\ last' = Call(op, obj.query, out, BlobBefore)
    /\ UNCHANGED <<settings, obj, localfile, containers, blobs, pure, aside>>

ContainerExists ==
    /\ obj.built
    /\ \E f \in Faults : Asked("container_exists", container_exists(obj, f))

\* The faults a call can meet; a call that is not made meets none.
FaultsIf(made) == IF made THEN Faults ELSE {"ok"}

AsksBlob(f) == obj.valid /\ ContainerAnswer(obj.container_name.value, f) = "True"

Exists ==
    /\ obj.built
    /\ \E f1 \in Faults : \E f2 \in FaultsIf(AsksBlob(f1)) :
          Asked("exists", exists(obj, f1, f2))

Changed(op, out) ==
    /\ last' = Call(op, obj.query, out, BlobBefore)
    /\ containers' = out.containers
    /\ blobs' = out.blobs
    /\ UNCHANGED <<settings, obj, localfile, pure, aside>>

\* whether store_object comes to send a request that creates the container
Creates(f) ==
    /\ obj.valid
    /\ ContainerAnswer(obj.container_name.value, f) = "False"
    /\ CreateAnswer(obj.container_name.value, "ok") # "client"

Uploads == obj.valid /\ localfile # NoFile /\ settings.generation = "azure"

StoreObject ==
    /\ obj.built
    /\ \E fe \in Faults : \E fc \in FaultsIf(Creates(fe)) : \E fu \in FaultsIf(Uploads) :
          Changed("store_object",
                  store_object(settings.generation, obj, localfile, fe, fc, fu))

Deletes(f) ==
    obj.valid /\ BlobAnswer(obj.container_name.value, obj.blob_path.value, f) = "True"

Remove ==
    /\ obj.built
    /\ \E f1 \in Faults : \E f2 \in FaultsIf(Deletes(f1)) :
          Changed("remove", remove(obj, f1, f2))

\* The body of retrieve_object is `pass` (`...` in the az generation): the file
\* at local_path() is what it was, and no backend call is made.
retrieve_object(v) == v

RetrieveObject ==
    /\ obj.built
    /\ localfile' = retrieve_object(localfile)
    /\ last' = Call("retrieve_object", obj.query, Outcome("none", "None", <<>>),
                    BlobBefore)
    /\ UNCHANGED <<settings, obj, containers, blobs, pure, aside>>

Elsewhere == [NoCall EXCEPT !.op = "elsewhere"]

\* Someone else creates a container of the account, as the test setup does.
CreateContainer ==
    \E c \in ContainerNames \ containers :
        /\ containers' = containers \cup {c}
        /\ last' = Elsewhere
        /\ UNCHANGED <<settings, obj, localfile, blobs, pure, aside>>

\* Someone else uploads a blob, as the test setup does.
UploadBlob ==
    \E c \in containers, k \in BlobKeys, v \in Contents :
        /\ blobs' = Uploaded(blobs, c, k, v)
        /\ last' = Elsewhere
        /\ UNCHANGED <<settings, obj, localfile, containers, pure, aside>>

\* The host writes, or deletes, the file at local_path().
WriteLocalFile ==
    \E v \in (Contents \cup {NoFile}) \ {localfile} :
        /\ localfile' = v
        /\ last' = Elsewhere
        /\ UNCHANGED <<settings, obj, containers, blobs, pure, aside>>

Next ==
    \/ Construct
    \/ ContainerExists
    \/ Exists
    \/ StoreObject
    \/ Remove
    \/ RetrieveObject
    \/ CreateContainer
    \/ UploadBlob
    \/ WriteLocalFile

Spec == Init /\ [][Next]_vars

(***************************************************************************)
(* C2                                                                      *)
(***************************************************************************)
\* The account segment of an az:// query: the text between "az://" and the
\* next "/".
AccountSegmentOf(q) ==
    LET body  == From(q, Len(AzSlashes) + 1)
        slash == Find(body, "/", 1)
    IN  IF slash = 0 THEN body ELSE SubSeq(body, 1, slash - 1)

\* The last call built a storage object from a valid query that names another
\* account than the configured one.
ConstructedForOtherAccount ==
    /\ last.op = "construct"
    /\ is_valid_query(last.query).valid
    /\ StartsWith(last.query, AzSlashes)
    /\ AccountSegmentOf(last.query) # settings.storage_account_name

\* C2: constructing a StorageObject from a valid query whose account segment
\* differs from the configured settings.storage_account_name raises ValueError
\* with no backend call made and leaves no object, and every constructed
\* object that carries an account_name has that of the settings.
C2_AccountMatchesSettings ==
    /\ ConstructedForOtherAccount =>
          /\ last.raised = "ValueError"
          /\ last.answers = <<>>
          /\ ~obj.built
    /\ (obj.built /\ obj.valid) =>
          obj.account_name = Returned(settings.storage_account_name)

\* az://b/c/p was refused by a provider configured for account a.
C2_Witness ==
    /\ ConstructedForOtherAccount
    /\ settings.storage_account_name = <<"a">>
    /\ AccountSegmentOf(last.query) = <<"b">>
    /\ last.raised = "ValueError"

(***************************************************************************)
(* C8                                                                      *)
(***************************************************************************)
\* Every backend call of the last call was served: none failed.
Served == \A i \in 1..Len(last.answers) : last.answers[i].answer \in {"True", "False", "ok"}

ContainerOfQuery == obj.container_name.value
BlobOfQuery == <<obj.container_name.value, obj.blob_path.value>>

\* C8: when the backend serves its calls, exists() on an object built from a
\* valid query returns without raising: True when the container of the query
\* exists and holds a blob under exactly blob_path, False when the container is
\* missing or holds no such blob.
C8_ExistsReportsAbsence ==
    (last.op = "exists" /\ obj.valid /\ Served) =>
        /\ last.raised = "none"
        /\ last.value = IF ContainerOfQuery \in containers /\ blobs[BlobOfQuery] # Absent
                        THEN "True" ELSE "False"

\* exists() returned False for a blob that is missing from a container that
\* holds another blob.
C8_Witness ==
    /\ last.op = "exists"
    /\ obj.valid
    /\ Served
    /\ last.value = "False"
    /\ ContainerOfQuery \in containers
    /\ blobs[BlobOfQuery] = Absent
    /\ \E k \in BlobKeys : blobs[<<ContainerOfQuery, k>>] # Absent

(***************************************************************************)
(* C9                                                                      *)
(***************************************************************************)
\* The answer the backend gave to the container-existence check of the last
\* call.
ContainerCheckAnswer == last.answers[1].answer

ContainerChecked ==
    /\ last.op \in {"container_exists", "exists"}
    /\ last.answers # <<>>

\* C9: when the backend answers the container-existence check with HTTP 403,
\* container_exists and exists() raise PermissionError and return nothing; any
\* other error of that check reaches the caller as it is.
C9_ForbiddenIsNotAbsent ==
    /\ (ContainerChecked /\ ContainerCheckAnswer = "403") =>
          last.raised = "PermissionError" /\ last.value # "False"
    /\ (ContainerChecked /\ ContainerCheckAnswer \in {"500", "io"}) =>
          last.raised = FaultError(ContainerCheckAnswer)

\* exists() raised PermissionError on a forbidden answer for a container that
\* is there.
C9_Witness ==
    /\ last.op = "exists"
    /\ ContainerChecked
    /\ ContainerCheckAnswer = "403"
    /\ last.raised = "PermissionError"
    /\ ContainerOfQuery \in containers

(***************************************************************************)
(* C10                                                                     *)
(***************************************************************************)
\* C10: when store_object is called with the local file present and returns
\* without error, the container of the query exists and the blob at blob_path
\* holds the content of the local file, whatever was stored there before.
C10_StoredAsLocal ==
    (last.op = "store_object" /\ last.raised = "none" /\ localfile # NoFile) =>
        /\ obj.valid
        /\ ContainerOfQuery \in containers
        /\ blobs[BlobOfQuery] = localfile

\* store_object replaced other content of the blob by that of the local file.
C10_Witness ==
    /\ last.op = "store_object"
    /\ last.raised = "none"
    /\ localfile # NoFile
    /\ last.before \notin {Absent, localfile}
    /\ blobs[BlobOfQuery] = localfile

(***************************************************************************)
(* C11                                                                     *)
(***************************************************************************)
\* C11 as stated: when retrieve_object is called on an object whose blob
\* exists in the backend and returns without error, the file at local_path()
\* exists and holds the content of the blob.
C11_AsStated ==
    (/\ last.op = "retrieve_object"
     /\ last.raised = "none"
     /\ obj.valid
     /\ HoldsBlob(ContainerOfQuery, obj.blob_path.value)) =>
        /\ localfile # NoFile
        /\ localfile = blobs[BlobOfQuery]

(***************************************************************************)
(* C12                                                                     *)
(***************************************************************************)
\* The service failed none of the backend calls of the call: each was answered
\* from the state of the storage account.
NoFault(call) ==
    \A i \in 1..Len(call.answers) : call.answers[i].answer \notin Faults \ {"ok"}

\* The step is the second of two invocations in succession of store_object,
\* remove or exists on an object built from a valid query, with a service that
\* fails no call of either.
SecondInSuccession ==
    /\ last'.again
    /\ last'.op \in {"store_object", "remove", "exists"}
    /\ obj.valid
    /\ NoFault(last)
    /\ NoFault(last')

\* C12 as stated: each of store_object, remove and exists, invoked twice in
\* succession on the same object with nobody else changing the backend or the
\* local file in between and the service failing no call, returns without
\* error both times, and the second invocation leaves the containers and
\* blobs as the first left them; the second remove finds the blob absent and
\* deletes nothing.
C12_AsStated ==
    [][SecondInSuccession =>
          /\ last.raised = "none"
          /\ last'.raised = "none"
          /\ containers' = containers
          /\ blobs' = blobs
          /\ (last'.op = "remove" =>
                last'.answers = <<Answer("blob.exists", "False")>>)]_vars

(***************************************************************************)
(* C13                                                                     *)
(***************************************************************************)
\* An az:// query in which nothing, or an empty segment, follows the account:
\* az://acct, az://acct/, az://acct//path.
EmptyContainerSegment ==
    /\ StartsWith(query, AzPrefix)
    /\ AccountSegment # <<>>
    /\ ContainerSegment = <<>>

\* C13 as stated: for every az:// query whose container segment is empty,
\* parse_query_container_name raises an error and never returns the empty
\* string as the container name.
C13_AsStated ==
    (EmptyContainerSegment /\ parsed.container # Unset) =>
        /\ parsed.container.raised # "none"
        /\ parsed.container # Returned(<<>>)

(***************************************************************************)
(* C14                                                                     *)
(***************************************************************************)
\* C14 as stated: for every query that parse_query_path parses, the path it
\* returns does not begin with "/", consecutive slashes after the container
\* segment included.
C14_AsStated ==
    (parsed.path # Unset /\ parsed.path.raised = "none") =>
        ~StartsWith(parsed.path.value, <<"/">>)

(***************************************************************************)
(* SpecDir: size, mtime, inventory and remove on an account whose keys     *)
(* share prefixes, with the size and the modification time of each blob    *)
(***************************************************************************)
DirContainer == <<"c">>
DirKeys == {<<"p">>, <<"p", "/", "a">>, <<"p", "/", "b">>, <<"p", "a">>}
DirQueries ==
    { AzSlashes \o <<"a", "/", "c", "/", "p">>,
      AzSlashes \o <<"a", "/", "c", "/", "p", "/", "a">>,
      S3Slashes \o <<"a", "/", "c", "/", "p">> }
Times == {1, 2}

\* the number of bytes of a content
SizeOf(v) == IF v = "v1" THEN 10 ELSE 20

\* BlobClient.get_blob_properties()
PropertiesAnswer(c, k, f) ==
    IF f # "ok" THEN f ELSE IF ~HoldsBlob(c, k) THEN "404" ELSE "ok"

PropertiesOutcome(ans, value) ==
    IF ans = "ok" THEN Outcome("none", value, <<Answer("get_blob_properties", ans)>>)
    ELSE Outcome(FaultError(ans), "None", <<Answer("get_blob_properties", ans)>>)

\* StorageObject.size
size(o, f) ==
    IF ~o.valid THEN NoClient
    ELSE PropertiesOutcome(
             PropertiesAnswer(o.container_name.value, o.blob_path.value, f),
             SizeOf(blobs[<<o.container_name.value, o.blob_path.value>>]))

\* StorageObject.mtime
mtime(o, f) ==
    IF ~o.valid THEN NoClient
    ELSE PropertiesOutcome(
             PropertiesAnswer(o.container_name.value, o.blob_path.value, f),
             modified[<<o.container_name.value, o.blob_path.value>>])

\* The host builds a cache key from the prefix of the provider and the local
\* suffix: a string that is never empty.
CachePrefix == <<"<cache prefix>">>
cache_key(suffix) == CachePrefix \o suffix

\* `self.cache_key` without a call: the bound method itself is the key.
cache_key_uncalled == <<"<bound method cache_key>">>

\* the truth value of a str
Truthy(x) == x # <<>>

local_suffix_from_key(o, key) == o.container_name.value \o <<"/">> \o key

get_inventory_parent(o) == cache_key(o.container_name.value)

\* d[k] = v
Put(d, k, v) == {x \in d : x[1] # k} \cup {<<k, v>>}

\* the names ContainerClient.list_blobs() yields
ListBlobs(c) == {x[2] : x \in {y \in DOMAIN blobs : y[1] = c /\ blobs[y] # Absent}}

\* the loop over list_blobs(): one entry per blob in each of the three
\* dictionaries
Listed(o, ch) ==
    [exists_in_storage |-> Put(ch.exists_in_storage, cache_key_uncalled, TRUE),
     exists_remote |->
         {x \in ch.exists_remote :
             \A k \in ListBlobs(o.container_name.value) :
                 x[1] # cache_key(local_suffix_from_key(o, k))}
         \cup {<<cache_key(local_suffix_from_key(o, k)), TRUE>> :
                  k \in ListBlobs(o.container_name.value)},
     mtime |->
         {x \in ch.mtime :
             \A k \in ListBlobs(o.container_name.value) :
                 x[1] # cache_key(local_suffix_from_key(o, k))}
         \cup {<<cache_key(local_suffix_from_key(o, k)),
                 modified[<<o.container_name.value, k>>]>> :
                  k \in ListBlobs(o.container_name.value)},
     size |->
         {x \in ch.size :
             \A k \in ListBlobs(o.container_name.value) :
                 x[1] # cache_key(local_suffix_from_key(o, k))}
         \cup {<<cache_key(local_suffix_from_key(o, k)),
                 SizeOf(blobs[<<o.container_name.value, k>>])>> :
                  k \in ListBlobs(o.container_name.value)}]

Inventoried(raised, answers, ch) == [raised |-> raised, answers |-> answers, cache |-> ch]

\* the branches of inventory() after get_inventory_parent(), given what
\* container_exists did and how list_blobs() fares
InventoryBranches(o, ch, ce, fl) ==
    IF ce.raised # "none" THEN Inventoried(ce.raised, ce.answers, ch)
    ELSE IF ce.value = "False"
    THEN Inventoried("none", ce.answers,
                     [ch EXCEPT !.exists_in_storage = Put(@, cache_key_uncalled, FALSE)])
    ELSE IF fl # "ok"
    THEN Inventoried(FaultError(fl), ce.answers \o <<Answer("list_blobs", fl)>>,
                     [ch EXCEPT !.exists_in_storage = Put(@, cache_key_uncalled, TRUE)])
    ELSE Inventoried("none", ce.answers \o <<Answer("list_blobs", "ok")>>, Listed(o, ch))

\* StorageObject.inventory: `if self.get_inventory_parent(): return`
inventory(o, ch, fe, fl) ==
    IF ~o.valid THEN Inventoried("AttributeError", <<>>, ch)
    ELSE IF Truthy(get_inventory_parent(o)) THEN Inventoried("none", <<>>, ch)
    ELSE InventoryBranches(o, ch, container_exists(o, fe), fl)

InitDir ==
    /\ QueryIdle
    /\ EndpointIdle
    /\ \E gen \in Generations, e \in SettingsEndpoints :
          /\ settings_post_init(gen, e) = Returned(<<"a">>)
          /\ settings = [generation |-> gen, endpoint_url |-> e,
                         storage_account_name |-> <<"a">>]
    /\ obj = NoObject
    /\ localfile = NoFile
    /\ containers = {}
    /\ blobs = [x \in {DirContainer} \X DirKeys |-> Absent]
    /\ modified = [x \in {DirContainer} \X DirKeys |-> 0]
    /\ cache = NoCache
    /\ threads = <<>>
    /\ last = NoCall

DirConstruct ==
    \E q \in DirQueries :
        Built(q, post_init(settings.generation, q, settings.storage_account_name))

Size ==
    /\ obj.built
    /\ \E f \in Faults : Asked("size", size(obj, f))

Mtime ==
    /\ obj.built
    /\ \E f \in Faults : Asked("mtime", mtime(obj, f))

\* the modification times of the blobs that are left
ModifiedAfter(b) == [x \in DOMAIN modified |-> IF b[x] = Absent THEN 0 ELSE modified[x]]

DirChanged(op, out) ==
    /\ last' = Call(op, obj.query, out, BlobBefore)
    /\ containers' = out.containers
    /\ blobs' = out.blobs
    /\ modified' = ModifiedAfter(out.blobs)
    /\ UNCHANGED <<settings, obj, localfile, cache, threads, pure>>

DirRemove ==
    /\ obj.built
    /\ \E f1 \in Faults : \E f2 \in FaultsIf(Deletes(f1)) :
          DirChanged("remove", remove(obj, f1, f2))

InventoryDone(out) ==
    /\ cache' = out.cache
    /\ last' = Call("inventory", obj.query, Outcome(out.raised, "None", out.answers),
                    BlobBefore)
    /\ UNCHANGED <<settings, obj, localfile, containers, blobs, modified, threads, pure>>

\* whether inventory() comes to ask for the container, and for its blobs
AsksContainer == obj.valid /\ ~Truthy(get_inventory_parent(obj))
AsksList(fe) == AsksContainer /\ ContainerAnswer(obj.container_name.value, fe) = "True"

Inventory ==
    /\ obj.built
    /\ \E fe \in FaultsIf(AsksContainer) : \E fl \in FaultsIf(AsksList(fe)) :
          InventoryDone(inventory(obj, cache, fe, fl))

DirCreateContainer ==
    /\ DirContainer \notin containers
    /\ containers' = containers \cup {DirContainer}
    /\ last' = Elsewhere
    /\ UNCHANGED <<settings, obj, localfile, blobs, modified, cache, threads, pure>>

\* Someone else uploads a blob at some time.
DirUploadBlob ==
    \E k \in DirKeys, v \in Contents, t \in Times :
        /\ DirContainer \in containers
        /\ blobs' = Uploaded(blobs, DirContainer, k, v)
        /\ modified' = [modified EXCEPT ![<<DirContainer, k>>] = t]
        /\ last' = Elsewhere
        /\ UNCHANGED <<settings, obj, localfile, containers, cache, threads, pure>>

NextDir ==
    \/ DirConstruct
    \/ Size
    \/ Mtime
    \/ Inventory
    \/ DirRemove
    \/ DirCreateContainer
    \/ DirUploadBlob

SpecDir == InitDir /\ [][NextDir]_vars

(***************************************************************************)
(* C15                                                                     *)
(***************************************************************************)
\* The keys under the prefix blob_path + "/" that hold a blob.
DirEntries ==
    {k \in DirKeys : /\ HoldsBlob(ContainerOfQuery, k)
                     /\ StartsWith(k, obj.blob_path.value \o <<"/">>)}

RECURSIVE SumOfSizes(_)
SumOfSizes(K) ==
    IF K = {} THEN 0
    ELSE SizeOf(blobs[<<ContainerOfQuery, CHOOSE k \in K : TRUE>>])
             + SumOfSizes(K \ {CHOOSE k \in K : TRUE})

LatestModified(K) == SetMax({modified[<<ContainerOfQuery, k>>] : k \in K})

\* C15 as stated: when the container holds one or more blobs whose keys start
\* with blob_path + "/" and the service fails no call, size() returns the sum
\* of their sizes and mtime() the latest of their modification times.
C15_AsStated ==
    /\ (last.op = "size" /\ obj.valid /\ DirEntries # {} /\ NoFault(last)) =>
          /\ last.raised = "none"
          /\ last.value = SumOfSizes(DirEntries)
    /\ (last.op = "mtime" /\ obj.valid /\ DirEntries # {} /\ NoFault(last)) =>
          /\ last.raised = "none"
          /\ last.value = LatestModified(DirEntries)

(***************************************************************************)
(* C16                                                                     *)
(***************************************************************************)
\* The cache holds existence, size and modification time of the blob under k.
CacheHoldsBlob(k) ==
    /\ <<cache_key(local_suffix_from_key(obj, k)), TRUE>> \in cache.exists_remote
    /\ <<cache_key(local_suffix_from_key(obj, k)), SizeOf(blobs[<<ContainerOfQuery, k>>])>>
           \in cache.size
    /\ <<cache_key(local_suffix_from_key(obj, k)), modified[<<ContainerOfQuery, k>>]>>
           \in cache.mtime

\* The cache holds an entry that says the object is not in storage.
CacheHoldsAbsence == \E x \in cache.exists_in_storage : x[2] = FALSE

\* C16 as stated: after inventory() on an object built from a valid query,
\* the service failing no call, the cache holds existence, size and
\* modification time of every blob of the object's container when that
\* container exists, and records the object as not in storage when it does
\* not.
C16_AsStated ==
    (last.op = "inventory" /\ obj.valid /\ NoFault(last)) =>
        IF ContainerOfQuery \in containers
        THEN \A k \in ListBlobs(ContainerOfQuery) : CacheHoldsBlob(k)
        ELSE CacheHoldsAbsence

(***************************************************************************)
(* C17                                                                     *)
(***************************************************************************)
\* Everything but the blob under exactly blob_path is as it was.
OthersUnchanged ==
    /\ containers' = containers
    /\ \A x \in DOMAIN blobs :
          (obj.valid /\ x = BlobOfQuery) \/
          (blobs'[x] = blobs[x] /\ modified'[x] = modified[x])

\* C17: remove() leaves every container as it was and every blob other than
\* the one stored under exactly blob_path in the object's container, blobs
\* whose keys start with blob_path included, whether it returns or raises;
\* when no blob is stored under blob_path and the service fails no call it
\* changes nothing and returns without error.
C17_RemoveExactKey ==
    [][last'.op = "remove" =>
          /\ OthersUnchanged
          /\ (obj.valid /\ ~HoldsBlob(ContainerOfQuery, obj.blob_path.value)
                /\ NoFault(last')) =>
                (blobs' = blobs /\ last'.raised = "none")]_vars

\* remove() deleted the blob under p and left the blobs under p/a and pa.
C17_Witness ==
    /\ last.op = "remove"
    /\ last.raised = "none"
    /\ obj.valid
    /\ obj.blob_path.value = <<"p">>
    /\ last.before # Absent
    /\ blobs[BlobOfQuery] = Absent
    /\ blobs[<<ContainerOfQuery, <<"p", "/", "a">>>>] # Absent
    /\ blobs[<<ContainerOfQuery, <<"p", "a">>>>] # Absent

(***************************************************************************)
(* C18                                                                     *)
(***************************************************************************)
\* C18 as stated: StorageProviderSettings of the az generation, built with a
\* production endpoint https://<label>(.<label>)*.blob.core.windows.net[/...],
\* sets storage_account_name to the first label of the endpoint's host; built
\* with the emulator endpoint http://127.0.0.1:10000/<account> it sets it to
\* the path segment that follows the port.
C18_AsStated ==
    (epout # Unset /\ epout.op = "az_settings_post_init") =>
        /\ IntendedBlobForm(endpoint) =>
              epout.res = Returned(FirstLabel(HostOf(Authority(endpoint, HttpsPrefix))))
        /\ MatchesAzMockPattern(endpoint) =>
              epout.res = Returned(After(endpoint, AzMockPrefix))

(***************************************************************************)
(* SpecConcurrent: two storage objects of one provider, each running       *)
(* remove or store_object in a thread of its own; a step is one backend    *)
(* call and what the method does with its answer                           *)
(***************************************************************************)
ThreadIds == {1, 2}
ConcurrentQueries ==
    { AzSlashes \o <<"a", "/", "c", "/", "p">>,
      AzSlashes \o <<"a", "/", "c", "/", "q">> }
ConcurrentContainer == <<"c">>

\* the local file of the object of thread t, when it has one
FileOf(t) == IF t = 1 THEN "v1" ELSE "v2"

\* A method that has just been called: pc names the backend call it makes next.
Invoked(op, o, v) ==
    [op |-> op, obj |-> o, localfile |-> v,
     pc |-> IF op = "remove" THEN "blob.exists" ELSE "container.exists",
     raised |-> "none", answers |-> <<>>,
     before |-> blobs[<<o.container_name.value, o.blob_path.value>>],
     container_before |-> o.container_name.value \in containers]

Finished(th, raised, answers) ==
    [th EXCEPT !.pc = "done", !.raised = raised, !.answers = answers]

Goes(th, pc, answers) == [th EXCEPT !.pc = pc, !.answers = answers]

\* remove: `if self.blob().exists():`
RemoveAsked(th, be) ==
    IF be.raised # "none" THEN Finished(th, be.raised, be.answers)
    ELSE IF be.value = "False" THEN Finished(th, "none", be.answers)
    ELSE Goes(th, "delete_blob", be.answers)

\* store_object: `if not self.container_exists():` and the except clause
\* around it
StoreChecked(th, ce) ==
    IF ce.raised # "none"
    THEN IF ExceptClause(ce.raised) = "none" THEN Goes(th, "upload_blob", ce.answers)
         ELSE Finished(th, ExceptClause(ce.raised), ce.answers)
    ELSE IF ce.value = "True" THEN Goes(th, "upload_blob", ce.answers)
    ELSE Goes(th, "create_container", ce.answers)

\* store_object: `self.container().create_container(...)` and the except clause
StoreCreated(th, step) ==
    IF step.raised = "none" THEN Goes(th, "upload_blob", step.answers)
    ELSE Finished(th, step.raised, step.answers)

InitConcurrent ==
    /\ QueryIdle
    /\ EndpointIdle
    /\ \E gen \in Generations :
          settings = [generation |-> gen, endpoint_url |-> AzMockPrefix \o <<"a">>,
                      storage_account_name |->
                          settings_post_init(gen, AzMockPrefix \o <<"a">>).value]
    /\ obj = NoObject
    /\ localfile = NoFile
    /\ containers \in {{}, {ConcurrentContainer}}
    /\ blobs \in [{ConcurrentContainer} \X BlobKeys -> Contents \cup {Absent}]
    /\ containers = {} => \A x \in DOMAIN blobs : blobs[x] = Absent
    /\ modified = <<>>
    /\ cache = NoCache
    /\ last = NoCall
    /\ \E op \in {"remove", "store_object"} :
          \E q \in [ThreadIds -> ConcurrentQueries] :
             \E present \in [ThreadIds -> BOOLEAN] :
                /\ op = "remove" => \A t \in ThreadIds : ~present[t]
                /\ threads =
                      [t \in ThreadIds |->
                          Invoked(op,
                                  post_init(settings.generation, q[t],
                                            settings.storage_account_name).obj,
                                  IF present[t] THEN FileOf(t) ELSE NoFile)]

Container(t) == threads[t].obj.container_name.value
Key(t) == threads[t].obj.blob_path.value

ThreadMoves(t, th) ==
    /\ threads' = [threads EXCEPT ![t] = th]
    /\ UNCHANGED <<settings, obj, localfile, last, modified, cache, pure>>

\* remove: self.blob().exists()
RemoveAsks(t) ==
    /\ threads[t].pc = "blob.exists"
    /\ \E f \in Faults :
          ThreadMoves(t, RemoveAsked(threads[t],
                                     BlobExistsOutcome(BlobAnswer(Container(t), Key(t), f),
                                                       <<>>)))
    /\ UNCHANGED <<containers, blobs>>

ThreadStored(t, out) ==
    /\ ThreadMoves(t, Finished(threads[t], out.raised, out.answers))
    /\ containers' = out.containers
    /\ blobs' = out.blobs

\* remove: self.blob().delete_blob()
RemoveDeletes(t) ==
    /\ threads[t].pc = "delete_blob"
    /\ \E f \in Faults :
          ThreadStored(t, DeleteOutcome(DeleteAnswer(Container(t), Key(t), f),
                                        threads[t].answers, Container(t), Key(t)))

\* store_object: self.container_exists()
StoreChecks(t) ==
    /\ threads[t].pc = "container.exists"
    /\ \E f \in Faults :
          ThreadMoves(t, StoreChecked(threads[t], container_exists(threads[t].obj, f)))
    /\ UNCHANGED <<containers, blobs>>

ThreadCreated(t, step) ==
    /\ ThreadMoves(t, StoreCreated(threads[t], step))
    /\ containers' = ContainersAfter(step, Container(t))
    /\ UNCHANGED blobs

\* store_object: self.container().create_container(self.container_name)
StoreCreates(t) ==
    /\ threads[t].pc = "create_container"
    /\ \E f \in FaultsIf(CreateAnswer(Container(t), "ok") # "client") :
          ThreadCreated(t, CreateOutcome(CreateAnswer(Container(t), f),
                                         threads[t].answers))

\* store_object: `if self.local_path().exists(): self.upload_blob_to_storage()`
StoreUploads(t) ==
    /\ threads[t].pc = "upload_blob"
    /\ \E f \in FaultsIf(threads[t].localfile # NoFile
                            /\ settings.generation = "azure") :
          ThreadStored(t, StoreAfter(settings.generation,
                                     Step("none", FALSE, threads[t].answers),
                                     Container(t), Key(t), threads[t].localfile, f))

NextConcurrent ==
    \E t \in ThreadIds :
        \/ RemoveAsks(t)
        \/ RemoveDeletes(t)
        \/ StoreChecks(t)
        \/ StoreCreates(t)
        \/ StoreUploads(t)

SpecConcurrent == InitConcurrent /\ [][NextConcurrent]_vars

(***************************************************************************)
(* C19                                                                     *)
(***************************************************************************)
BothDone == \A t \in ThreadIds : threads[t].pc = "done"
BothRun(op) == \A t \in ThreadIds : threads[t].op = op
NoFaults == \A t \in ThreadIds : NoFault(threads[t])

FilesFor(t) == {threads[u].localfile : u \in {v \in ThreadIds : Key(v) = Key(t)}}

\* Two objects of the azure generation run store_object, each with its local
\* file, on a container that did not exist when they were called.
BothStoreIntoNewContainer ==
    /\ BothRun("store_object")
    /\ settings.generation = "azure"
    /\ \A t \in ThreadIds : /\ threads[t].localfile # NoFile
                            /\ ~threads[t].container_before

\* C20 as stated: when two storage objects whose queries name the same
\* container, which does not exist yet, run store_object concurrently, each
\* with its local file present, and the service fails no call, then whatever
\* the order of the existence checks, the creations and the uploads, both
\* invocations return without error, and afterwards the container exists and
\* holds under each object's key the content of a local file stored there.
C20_AsStated ==
    (BothStoreIntoNewContainer /\ BothDone /\ NoFaults) =>
        /\ \A t \in ThreadIds : threads[t].raised = "none"
        /\ ConcurrentContainer \in containers
        /\ \A t \in ThreadIds : blobs[<<Container(t), Key(t)>>] \in FilesFor(t)

(***************************************************************************)
(* C21                                                                     *)
(***************************************************************************)
\* The backend answered the container-existence check or the creation of the
\* container of the last call with HTTP 403.
ForbiddenContainerStep ==
    \E i \in DOMAIN last.answers :
        /\ last.answers[i].call \in {"container.exists", "create_container"}
        /\ last.answers[i].answer = "403"

\* The last call went on to upload_blob().
UploadAttempted ==
    \E i \in DOMAIN last.answers : last.answers[i].call = "upload_blob"

\* C21 as stated: when the backend answers the container-existence check or
\* the container-creation call of store_object with HTTP 403, store_object
\* does not fail at that step: with the local file present it goes on to
\* upload it, and with no local file it returns without error.
C21_AsStated ==
    (/\ last.op = "store_object"
     /\ settings.generation = "azure"
     /\ obj.valid
     /\ ForbiddenContainerStep) =>
        IF localfile # NoFile THEN UploadAttempted ELSE last.raised = "none"

(***************************************************************************)
(* C22                                                                     *)
(***************************************************************************)
\* az://A/C: an account and a container, both alphanumeric, and nothing after
\* the container.
TwoSegmentQuery ==
    /\ StartsWith(query, AzPrefix)
    /\ Len(Segments) = 2
    /\ AccountSegment # <<>> /\ IsAlnum(AccountSegment)
    /\ ContainerSegment # <<>> /\ IsAlnum(ContainerSegment)

\* The storage object of the azure generation built from q by a provider of
\* the account the query names.
ObjectFor(q) == post_init("azure", q, AccountSegment).obj

\* az://A/C/C for the query az://A/C
ContainerRepeated == query \o <<"/">> \o ContainerSegment

\* C22 as stated: for every query az://A/C with nothing after the container,
\* parse_query_path returns the empty string and never the container name C,
\* and the storage objects built from az://A/C and from az://A/C/C differ in
\* blob_path and in local_suffix.
C22_AsStated ==
    (TwoSegmentQuery /\ parsed.path # Unset) =>
        /\ parsed.path = Returned(<<>>)
        /\ parsed.path # Returned(ContainerSegment)
        /\ ObjectFor(query).blob_path # ObjectFor(ContainerRepeated).blob_path
        /\ local_suffix_from_key(ObjectFor(query), ObjectFor(query).blob_path.value)
              # local_suffix_from_key(ObjectFor(ContainerRepeated),
                                      ObjectFor(ContainerRepeated).blob_path.value)

====
